---- MODULE Spec2Model ----
(***************************************************************************)
(* The path animator of farcaster-grid (GridCanvas / PachinkoCanvas):      *)
(* regenerate(), the reveal timer it schedules, the path simulation and    *)
(* the colour interpolation of the render effect.                          *)
(*                                                                         *)
(* Numbers are exact: a value of Math.random() is the fraction             *)
(* k / RandDen with k in 0 .. RandDen-1, a ratio handed to                 *)
(* interpolateColor is the fraction k / RatioDen.  A hex colour            *)
(* "#rrggbb" is the sequence of its six hexadecimal digits.                *)
(***************************************************************************)
EXTENDS Integers, Sequences, FiniteSets, TLC

VARIABLES
    visiblePaths,      \* React state: the revealed paths, in reveal order
    revealedFrom,      \* identity of each revealed path: <<generation, index>>
    selectedGradient,  \* React state: the gradient of the colour scheme
    tints,             \* React state: the tint pair
    bgColor,           \* React state: the background colour
    timers,            \* one entry per regenerate() call: its closure and interval
    calls,             \* the host's callbacks, in the order they were invoked
    startSeen,         \* what the animator looked like when onAnimationStart last ran
    rng,               \* state of Math.random(): numerator of the next value
    sim,               \* the path simulation applied to drawn random values
    interp,            \* interpolateColor applied to a drawn gradient and ratio
    component,         \* the animator that is mounted: GridCanvas or PachinkoCanvas
    rows,              \* the numRows of the mounted animator
    render,            \* the last run of the render effect
    kickoff,           \* GridCanvas mount effect: the requestAnimationFrame callback
    isAnimating,       \* App state
    hasMintedCurrentArtwork,  \* App state
    mint               \* CollectButton: its state and the position of handleClick

vars == <<visiblePaths, revealedFrom, selectedGradient, tints, bgColor, timers,
          calls, startSeen, rng, sim, interp, component, rows, render, kickoff,
          isAnimating, hasMintedCurrentArtwork, mint>>

animatorVars == <<visiblePaths, revealedFrom, selectedGradient, tints, bgColor,
                  timers, calls, startSeen, rng>>

\* which animator is mounted and how it is configured
mountVars == <<component, rows>>

\* the host view: App and CollectButton
appVars == <<kickoff, isAnimating, hasMintedCurrentArtwork, mint>>

----------------------------------------------------------------------------
(* Bounds of the model *)

numRows == 2      \* rows of one descent
numBalls == 2     \* paths of one generation
MaxGen == 2       \* regenerate() calls in one behaviour
RandDen == 64     \* Math.random() yields k / RandDen
MaxSeed == 1      \* the animator starts with Math.random() in state 0 .. MaxSeed
RatioDen == 24    \* ratios handed to interpolateColor are k / RatioDen

(* Program constants *)

stepSize == 30
totalCols == 40
visibleCols == 30
canvasWidth == 900
canvasHeight == 1200

startColRange == << -(totalCols \div 2), totalCols \div 2 >>

----------------------------------------------------------------------------
(* Colour tables *)

neon == << <<0,0,15,15,14,5>>, <<15,15,0,0,15,15>>,
           <<15,15,15,15,0,0>>, <<0,0,15,15,0,0>> >>
sunset == << <<15,15,7,14,5,15>>, <<15,14,11,4,7,11>>,
             <<15,15,6,14,7,15>>, <<11,15,14,9,15,15>> >>
cyberpunk == << <<15,15,0,0,12,8>>, <<0,0,15,0,15,15>>,
                <<15,10,15,15,0,0>>, <<15,15,6,15,0,0>> >>

gradients == [neon |-> neon, sunset |-> sunset, cyberpunk |-> cyberpunk]
gradientKeys == <<"neon", "sunset", "cyberpunk">>

tintOptions ==
    << [left |-> "rgba(0,255,255,0.25)", right |-> "rgba(255,0,255,0.25)"],
       [left |-> "rgba(255,0,0,0.25)",   right |-> "rgba(0,255,0,0.25)"],
       [left |-> "rgba(0,128,255,0.25)", right |-> "rgba(255,255,0,0.25)"] >>

backgroundOptions == <<"#0d0221", "#ffffff">>

----------------------------------------------------------------------------
(* Math.random() *)

\* The generator behind Math.random(): the state after one call.
NextRandom(s) == (5 * s + 3) % RandDen

RECURSIVE RandomJump(_)
\* NextRandom is affine, so j calls take state s to (a * s + c) % RandDen:
\* the pair <<a, c>>, found by halving j.
RandomJump(j) ==
    IF j = 0 THEN <<1, 0>>
    ELSE IF j % 2 = 0
    THEN LET h == RandomJump(j \div 2)
         IN  <<(h[1] * h[1]) % RandDen, (h[1] * h[2] + h[2]) % RandDen>>
    ELSE LET h == RandomJump(j - 1)
         IN  <<(NextRandom(h[1]) - NextRandom(0)) % RandDen, NextRandom(h[2])>>

\* The value of the j-th call from state s (j = 0 is the next call):
\* NextRandom applied j times to s.
RandomAt(s, j) == LET h == RandomJump(j) IN (h[1] * s + h[2]) % RandDen

\* Math.floor(Math.random() * n) for the random value r / RandDen
FloorRandom(r, n) == (r * n) \div RandDen

\* arr[Math.floor(Math.random() * arr.length)]
PickRandom(arr, r) == arr[FloorRandom(r, Len(arr)) + 1]

----------------------------------------------------------------------------
(* Path simulation *)

Origin(startX) == [x |-> startX, y |-> 0, direction |-> 0]

\* Math.random() < 0.5 ? -1 : 1
StepDirection(r) == IF 2 * r < RandDen THEN -1 ELSE 1

RECURSIVE SimulateRowsShort(_, _, _)
\* simulateBall's loop with the bound `row < numRows`
SimulateRowsShort(path, row, rs) ==
    IF row < rows
    THEN LET last == path[Len(path)]
             direction == StepDirection(rs[row])
             newX == last.x + direction * stepSize
             newY == last.y + stepSize
         IN  SimulateRowsShort(
                 Append(path, [x |-> newX, y |-> newY, direction |-> direction]),
                 row + 1, rs)
    ELSE path

RECURSIVE SimulateRows(_, _, _)
\* The loop of simulateBall from `row` on; rs[row] is the value drawn in that row.
SimulateRows(path, row, rs) ==
    IF row <= rows
    THEN LET last == path[Len(path)]
             direction == StepDirection(rs[row])
             newX == last.x + direction * stepSize
             newY == last.y + stepSize
         IN  SimulateRows(Append(path, [x |-> newX, y |-> newY, direction |-> direction]),
                          row + 1, rs)
    ELSE path

simulateBall(startX, rs) == SimulateRows(<<Origin(startX)>>, 1, rs)

\* the start column without the `+ startColRange[0]` shift
StartXUnshifted(r) ==
    FloorRandom(r, startColRange[2] - startColRange[1] + 1) * stepSize

\* (Math.floor(Math.random() * (hi - lo + 1)) + lo) * stepSize
StartX(r) ==
    (FloorRandom(r, startColRange[2] - startColRange[1] + 1) + startColRange[1]) * stepSize

centerOffset == ((totalCols - visibleCols) \div 2) * stepSize

RecenterPoint(p) ==
    [x |-> p.x - centerOffset + canvasWidth \div 2, y |-> p.y, direction |-> p.direction]

Recenter(path) == [i \in 1..Len(path) |-> RecenterPoint(path[i])]

----------------------------------------------------------------------------
(* Colour interpolation *)

RECURSIVE ParseHex(_, _)
\* parseInt(hex.slice(1), 16): the digits read from the left, acc so far
ParseHex(digits, acc) ==
    IF digits = <<>> THEN acc ELSE ParseHex(Tail(digits), 16 * acc + Head(digits))

\* [(bigint >> 16) & 255, (bigint >> 8) & 255, bigint & 255]
hexToRgb(hex) ==
    LET bigint == ParseHex(hex, 0)
    IN  << (bigint \div 65536) % 256, (bigint \div 256) % 256, bigint % 256 >>

\* Math.round(num / den), den > 0: halves round up
RoundFraction(num, den) == (2 * num + den) \div (2 * den)

RECURSIVE ToString16(_)
\* v.toString(16) for an integer v >= 0
ToString16(v) == IF v < 16 THEN <<v>> ELSE Append(ToString16(v \div 16), v % 16)

\* s.padStart(2, "0")
PadStart2(s) == IF Len(s) < 2 THEN <<0>> \o s ELSE s

\* rgbToHex for the channels num[c] / den
rgbToHex(num, den) ==
    PadStart2(ToString16(RoundFraction(num[1], den)))
        \o PadStart2(ToString16(RoundFraction(num[2], den)))
        \o PadStart2(ToString16(RoundFraction(num[3], den)))

\* Math.floor(ratio * n) for ratio = num / den, den > 0
IntervalIndexAt(n, num, den) == (num * n) \div den

\* Math.floor(ratio * n) for ratio = k / RatioDen
IntervalIndex(n, k) == IntervalIndexAt(n, k, RatioDen)

\* gradient[j] of the source (0-based) is defined
Defined(gradient, j) == j >= 0 /\ j < Len(gradient)

\* interpolateColor(gradient, num / den): the colour returned, or the
\* TypeError hexToRgb throws when handed an element that is not there.
interpolateColorAt(gradient, num, den) ==
    LET n == Len(gradient) - 1
        i == IntervalIndexAt(n, num, den)
        tNum == num * n - i * den             \* t = tNum / den
    IN  IF ~Defined(gradient, i) \/ ~Defined(gradient, i + 1)
        THEN [threw |-> "TypeError", color |-> <<>>]
        ELSE LET c1 == hexToRgb(gradient[i + 1])
                 c2 == hexToRgb(gradient[i + 2])
                 ch == [c \in 1..3 |-> c1[c] * den + (c2[c] - c1[c]) * tNum]
             IN  [threw |-> "none", color |-> rgbToHex(ch, den)]

\* interpolateColor(gradient, k / RatioDen)
interpolateColor(gradient, k) == interpolateColorAt(gradient, k, RatioDen)

----------------------------------------------------------------------------
(* The animator: regenerate() and its reveal timer *)

Animator ==
    [visiblePaths |-> visiblePaths, revealedFrom |-> revealedFrom,
     selectedGradient |-> selectedGradient, tints |-> tints, bgColor |-> bgColor,
     timers |-> timers, calls |-> calls, startSeen |-> startSeen]

\* Math.random() calls of one regenerate()
DrawsPerGeneration == 3 + numBalls * (1 + rows)

\* if (onAnimationStart) onAnimationStart()
NotifyStart(st, g) ==
    [st EXCEPT !.calls = Append(@, <<"start", g>>),
               !.startSeen = [gradient |-> st.selectedGradient,
                              revealed |-> Len(st.visiblePaths),
                              scheduled |-> Len(st.timers)]]

\* the random colour scheme and its three setState calls
SetScheme(st, s) ==
    LET randomGradient == gradients[PickRandom(gradientKeys, RandomAt(s, 0))]
        randomTints == PickRandom(tintOptions, RandomAt(s, 1))
        randomBackground == PickRandom(backgroundOptions, RandomAt(s, 2))
    IN  [st EXCEPT !.selectedGradient = randomGradient,
                   !.tints = randomTints,
                   !.bgColor = randomBackground]

\* Array.from({ length: numBalls }, ...): one start draw, then numRows step draws
AllPaths(s) ==
    [b \in 1..numBalls |->
        LET at == 3 + (b - 1) * (1 + rows)
        IN  simulateBall(StartX(RandomAt(s, at)),
                         [row \in 1..rows |-> RandomAt(s, at + row)])]

RecenteredPaths(s) == [b \in 1..numBalls |-> Recenter(AllPaths(s)[b])]

\* setVisiblePaths([])
ResetVisible(st) == [st EXCEPT !.visiblePaths = <<>>, !.revealedFrom = <<>>]

\* let index = 0; const interval = setInterval(..., 100)
ScheduleInterval(st, paths) ==
    [st EXCEPT !.timers = Append(@, [paths |-> paths, index |-> 0, live |-> TRUE])]

\* regenerate() with the onAnimationStart call moved to its end
regenerateNotifyLast(st, s) ==
    LET g == Len(st.timers) + 1
        s2 == SetScheme(st, s)
        paths == RecenteredPaths(s)
        s3 == ResetVisible(s2)
    IN  NotifyStart(ScheduleInterval(s3, paths), g)

\* The body of regenerate(), statement by statement; s is the state of Math.random()
regenerate(st, s) ==
    LET g == Len(st.timers) + 1
        s1 == NotifyStart(st, g)
        s2 == SetScheme(s1, s)
        paths == RecenteredPaths(s)
        s3 == ResetVisible(s2)
    IN  ScheduleInterval(s3, paths)

\* the callback without its clearInterval(interval)
intervalCallbackNoClear(st, g) ==
    LET t == st.timers[g]
    IN  IF t.index < Len(t.paths)
        THEN [st EXCEPT !.visiblePaths = Append(@, t.paths[t.index + 1]),
                        !.revealedFrom = Append(@, <<g, t.index + 1>>),
                        !.timers[g].index = t.index + 1]
        ELSE [st EXCEPT !.calls = Append(@, <<"end", g>>)]

\* the callback without its onAnimationEnd() call
intervalCallbackNoNotify(st, g) ==
    LET t == st.timers[g]
    IN  IF t.index < Len(t.paths)
        THEN [st EXCEPT !.visiblePaths = Append(@, t.paths[t.index + 1]),
                        !.revealedFrom = Append(@, <<g, t.index + 1>>),
                        !.timers[g].index = t.index + 1]
        ELSE [st EXCEPT !.timers[g].live = FALSE]

\* The callback of setInterval with its setVisiblePaths updater, for the
\* interval of generation g
intervalCallback(st, g) ==
    LET t == st.timers[g]
    IN  IF t.index < Len(t.paths)
        THEN [st EXCEPT !.visiblePaths = Append(@, t.paths[t.index + 1]),
                        !.revealedFrom = Append(@, <<g, t.index + 1>>),
                        !.timers[g].index = t.index + 1]
        ELSE [st EXCEPT !.timers[g].live = FALSE,
                        !.calls = Append(@, <<"end", g>>)]

Become(st) ==
    /\ visiblePaths' = st.visiblePaths
    /\ revealedFrom' = st.revealedFrom
    /\ selectedGradient' = st.selectedGradient
    /\ tints' = st.tints
    /\ bgColor' = st.bgColor
    /\ timers' = st.timers
    /\ calls' = st.calls
    /\ startSeen' = st.startSeen

\* regenerate() through the imperative handle or the mount effect
Regenerate ==
    /\ Len(timers) < MaxGen
    /\ Become(regenerate(Animator, rng))
    /\ rng' = RandomAt(rng, DrawsPerGeneration)
    /\ UNCHANGED <<sim, interp, mountVars, render, appVars>>

\* One firing of the interval of generation g
Tick(g) ==
    /\ g \in 1..Len(timers)
    /\ timers[g].live
    /\ Become(intervalCallback(Animator, g))
    /\ UNCHANGED <<rng, sim, interp, mountVars, render, appVars>>

Idle == [pc |-> "idle"]

\* GridCanvas with the scaled numRows
InitMount ==
    /\ component = "GridCanvas"
    /\ rows = numRows

NotRendered == [surface |-> "none", outcome |-> "none", strokes |-> 0, reads |-> {}]

\* the canvas content no mint refers to
NoArtwork == [generation |-> -1, paths |-> 0]

\* CollectButton before any click: isLoadingTxData false, mintedTokenId null
NoMint == [pc |-> "idle", isLoadingTxData |-> FALSE, mintedTokenId |-> "null",
           attempt |-> 0, artwork |-> NoArtwork, startedInReveal |-> FALSE,
           confirmed |-> NoArtwork, branch |-> "none"]

\* the host view before anything happened, the mount kick-off not pending
InitHost ==
    /\ render = NotRendered
    /\ kickoff = "none"
    /\ isAnimating = FALSE
    /\ hasMintedCurrentArtwork = FALSE
    /\ mint = NoMint

InitAnimator ==
    /\ visiblePaths = <<>>
    /\ revealedFrom = <<>>
    /\ selectedGradient = <<>>
    /\ tints = tintOptions[1]
    /\ bgColor = backgroundOptions[1]
    /\ timers = <<>>
    /\ calls = <<>>
    /\ startSeen = [gradient |-> <<>>, revealed |-> 0, scheduled |-> 0]

Init ==
    /\ InitAnimator
    /\ rng \in 0..MaxSeed
    /\ sim = Idle
    /\ interp = Idle
    /\ InitMount
    /\ InitHost

Next == Regenerate \/ \E g \in 1..MaxGen : Tick(g)

Spec == Init /\ [][Next]_vars

\* The interval keeps firing until it is cleared
SpecLive == Spec /\ \A g \in 1..MaxGen : WF_vars(Tick(g))

----------------------------------------------------------------------------
(* simulateBall and the recentering, applied to drawn random values *)

\* Values a step draw takes: the ends of [0, 1) and both sides of 0.5
StepDraws == {0, RandDen \div 2 - 1, RandDen \div 2, RandDen - 1}

InitSim ==
    /\ InitAnimator
    /\ rng = 0
    /\ interp = Idle
    /\ InitMount
    /\ InitHost
    /\ \E r0 \in 0..(RandDen - 1), rs \in [1..numRows -> StepDraws] :
          sim = [pc |-> "drawn", r0 |-> r0, rs |-> rs, allPath |-> <<>>, path |-> <<>>]

Simulate ==
    /\ sim.pc = "drawn"
    /\ sim' = [sim EXCEPT !.pc = "simulated",
                          !.allPath = simulateBall(StartX(sim.r0), sim.rs)]
    /\ UNCHANGED <<animatorVars, interp, mountVars, render, appVars>>

RecenterStep ==
    /\ sim.pc = "simulated"
    /\ sim' = [sim EXCEPT !.pc = "recentered", !.path = Recenter(sim.allPath)]
    /\ UNCHANGED <<animatorVars, interp, mountVars, render, appVars>>

NextSim == Simulate \/ RecenterStep

SpecSim == InitSim /\ [][NextSim]_vars

----------------------------------------------------------------------------
(* interpolateColor, applied to a drawn gradient and ratio *)

blackWhite == << <<0,0,0,0,0,0>>, <<15,15,15,15,15,15>> >>

GradientInputs == {neon, sunset, cyberpunk, blackWhite, <<>>}

InitInterp ==
    /\ InitAnimator
    /\ rng = 0
    /\ sim = Idle
    /\ InitMount
    /\ InitHost
    /\ \E gr \in GradientInputs, k \in 0..RatioDen :
          interp = [pc |-> "called", gradient |-> gr, ratio |-> k,
                    result |-> [threw |-> "none", color |-> <<>>]]

Interpolate ==
    /\ interp.pc = "called"
    /\ interp' = [interp EXCEPT !.pc = "returned",
                                !.result = interpolateColor(interp.gradient, interp.ratio)]
    /\ UNCHANGED <<animatorVars, sim, mountVars, render, appVars>>

NextInterp == Interpolate

SpecInterp == InitInterp /\ [][NextInterp]_vars

----------------------------------------------------------------------------
(* The render effect, with numRows as configured *)

numRowsConfigured == 40
MaxRenderGen == 1     \* regenerate() calls in one behaviour of the render model

RECURSIVE PathSegments(_, _)
\* the pairs (p1, p2) the loop over one path visits from index i on
PathSegments(path, i) ==
    IF i < Len(path)
    THEN <<[p1 |-> path[i], p2 |-> path[i + 1]]>> \o PathSegments(path, i + 1)
    ELSE <<>>

RECURSIVE AllSegments(_)
\* visiblePaths.forEach: the segments in the order they are drawn
AllSegments(paths) ==
    IF paths = <<>> THEN <<>>
    ELSE PathSegments(Head(paths), 1) \o AllSegments(Tail(paths))

\* avgY written with 2 * canvasHeight as the denominator of baseRatio
SegmentRatioLow(p1, p2) == 2 * p2.y

\* baseRatio = avgY / canvasHeight = (p1.y + p2.y) / (2 * canvasHeight)
SegmentRatioNum(p1, p2) == p1.y + p2.y

SegmentRatioDen == 2 * canvasHeight

\* interpolateColor(selectedGradient, baseRatio) for one segment
SegmentColor(gradient, seg) ==
    interpolateColorAt(gradient, SegmentRatioNum(seg.p1, seg.p2), SegmentRatioDen)

\* the indices of the gradient that call reads: i and i + 1
SegmentReads(gradient, seg) ==
    LET i == IntervalIndexAt(Len(gradient) - 1,
                             SegmentRatioNum(seg.p1, seg.p2), SegmentRatioDen)
    IN  {i, i + 1}

\* clearRect and the two strokes per segment, until a call of
\* interpolateColor throws
DrawPaths(surface, st) ==
    LET segs == AllSegments(st.visiblePaths)
        bad == {q \in DOMAIN segs : SegmentColor(st.selectedGradient, segs[q]).threw # "none"}
        first == IF bad = {} THEN Len(segs) + 1
                 ELSE CHOOSE q \in bad : \A r \in bad : q <= r
        visited == {q \in DOMAIN segs : q <= first}
    IN  [surface |-> surface,
         outcome |-> IF bad = {} THEN "drawn" ELSE "TypeError",
         strokes |-> 2 * (first - 1),
         reads |-> UNION {SegmentReads(st.selectedGradient, segs[q]) : q \in visited}]

Skipped(surface) == [surface |-> surface, outcome |-> "skipped", strokes |-> 0, reads |-> {}]

Thrown(surface) == [surface |-> surface, outcome |-> "TypeError", strokes |-> 0, reads |-> {}]

\* GridCanvas: if (!canvas) return; if (!ctx) return; then the drawing
renderGridCanvas(surface, st) ==
    IF surface = "noCanvas" THEN Skipped(surface)
    ELSE IF surface = "noContext" THEN Skipped(surface)
    ELSE DrawPaths(surface, st)

\* PachinkoCanvas: canvas.getContext("2d") and ctx.clearRect(...) unguarded
renderPachinkoCanvas(surface, st) ==
    IF surface = "noCanvas" THEN Thrown(surface)
    ELSE IF surface = "noContext" THEN Thrown(surface)
    ELSE DrawPaths(surface, st)

renderEffect(surface, st) ==
    IF component = "GridCanvas" THEN renderGridCanvas(surface, st)
    ELSE renderPachinkoCanvas(surface, st)

Surfaces == {"ok", "noCanvas", "noContext"}

\* One run of the render effect, the surface being as the environment has it
Render(surface) ==
    /\ render' = renderEffect(surface, Animator)
    /\ UNCHANGED <<animatorVars, sim, interp, mountVars, appVars>>

\* regenerate() in the render model
RenderRegenerate ==
    /\ Len(timers) < MaxRenderGen
    /\ Regenerate

InitRender ==
    /\ component \in {"GridCanvas", "PachinkoCanvas"}
    /\ rows = numRowsConfigured
    /\ visiblePaths = <<>>
    /\ revealedFrom = <<>>
    /\ selectedGradient = (IF component = "GridCanvas" THEN <<>> ELSE gradients.neon)
    /\ tints = tintOptions[1]
    /\ bgColor = backgroundOptions[1]
    /\ timers = <<>>
    /\ calls = <<>>
    /\ startSeen = [gradient |-> <<>>, revealed |-> 0, scheduled |-> 0]
    /\ rng \in 0..MaxSeed
    /\ sim = Idle
    /\ interp = Idle
    /\ InitHost

NextRender ==
    \/ RenderRegenerate
    \/ \E g \in 1..MaxRenderGen : Tick(g)
    \/ \E surface \in Surfaces : Render(surface)

SpecRender == InitRender /\ [][NextRender]_vars

----------------------------------------------------------------------------
(* The host App (the version whose handleGenerate resets the mint state)
   with GridCanvas and CollectButton *)

maxRetries == 10

\* what the <canvas> shows: the generation of the last regenerate() and the
\* paths revealed so far
ShownArtwork == [generation |-> Len(timers), paths |-> Len(visiblePaths)]

RevealInProgress == \E g \in DOMAIN timers : timers[g].live

\* the callback of requestAnimationFrame in the mount effect: regenerate(),
\* whose onAnimationStart is setIsAnimating(true)
AnimationFrame ==
    /\ kickoff = "pending"
    /\ Len(timers) < MaxGen
    /\ Become(regenerate(Animator, rng))
    /\ rng' = RandomAt(rng, DrawsPerGeneration)
    /\ kickoff' = "done"
    /\ isAnimating' = TRUE
    /\ UNCHANGED <<hasMintedCurrentArtwork, mint, sim, interp, mountVars, render>>

\* A click on Generate, enabled while !isAnimating: canvasRef.current?.regenerate()
\* and setHasMintedCurrentArtwork(false)
handleGenerate ==
    /\ ~isAnimating
    /\ Len(timers) < MaxGen
    /\ Become(regenerate(Animator, rng))
    /\ rng' = RandomAt(rng, DrawsPerGeneration)
    /\ isAnimating' = TRUE
    /\ hasMintedCurrentArtwork' = FALSE
    /\ UNCHANGED <<kickoff, mint, sim, interp, mountVars, render>>

\* One firing of the interval of generation g under the App: its
\* onAnimationEnd is setIsAnimating(false)
AppTick(g) ==
    /\ g \in 1..Len(timers)
    /\ timers[g].live
    /\ LET st == intervalCallback(Animator, g)
       IN  /\ Become(st)
           /\ isAnimating' = (IF Len(st.calls) > Len(calls) THEN FALSE ELSE isAnimating)
    /\ UNCHANGED <<rng, kickoff, hasMintedCurrentArtwork, mint, sim, interp,
                   mountVars, render>>

\* what the wallet and the document are when Collect is clicked
ClickEnvironments == {"disconnected", "noWalletClient", "noCanvas", "ready"}

\* handleClick up to its first await; isMinting is passed as true
handleClick(env) ==
    /\ ~mint.isLoadingTxData
    /\ ~hasMintedCurrentArtwork
    /\ ~isAnimating
    /\ mint' = IF env = "disconnected" THEN [mint EXCEPT !.branch = "connect"]
               ELSE IF env \in {"noWalletClient", "noCanvas"}
               THEN [mint EXCEPT !.branch = "onError"]
               ELSE [mint EXCEPT !.pc = "exportCanvasAsBlob",
                                 !.isLoadingTxData = TRUE,
                                 !.attempt = 0,
                                 !.artwork = ShownArtwork,
                                 !.startedInReveal = RevealInProgress,
                                 !.branch = "minting"]
    /\ UNCHANGED <<animatorVars, rng, kickoff, isAnimating, hasMintedCurrentArtwork,
                   sim, interp, mountVars, render>>

\* catch (err) { onError(msg) } finally { setIsLoadingTxData(false) }
CatchFinally(m) ==
    [m EXCEPT !.pc = "idle", !.isLoadingTxData = FALSE, !.branch = "onError"]

\* An await of the mint flow resolves, and handleClick runs to its next await
\* or to its end
AwaitResolves ==
    /\ mint.pc # "idle"
    /\ \/ /\ mint.pc = "exportCanvasAsBlob"
          /\ mint' = [mint EXCEPT !.pc = "uploadImageAndMetadata"]
          /\ UNCHANGED hasMintedCurrentArtwork
       \/ /\ mint.pc = "uploadImageAndMetadata"
          /\ mint' = [mint EXCEPT !.pc = "writeContractAsync"]
          /\ UNCHANGED hasMintedCurrentArtwork
       \/ /\ mint.pc = "writeContractAsync"
          /\ mint' = [mint EXCEPT !.pc = "getTransactionReceipt", !.attempt = 1]
          /\ UNCHANGED hasMintedCurrentArtwork
       \/ /\ mint.pc = "getTransactionReceipt"
          /\ \E receipt \in {"receipt", "undefined"} :
                IF receipt = "undefined"
                THEN /\ mint' = CatchFinally(mint)
                     /\ UNCHANGED hasMintedCurrentArtwork
                ELSE /\ mint' = [mint EXCEPT !.pc = "refetchTotal",
                                             !.confirmed = mint.artwork]
                     /\ hasMintedCurrentArtwork' = TRUE
       \/ /\ mint.pc = "refetchTotal"
          /\ mint' = [mint EXCEPT !.pc = "refetchMine"]
          /\ UNCHANGED hasMintedCurrentArtwork
       \/ /\ mint.pc = "refetchMine"
          /\ \E tokenId \in {"null", "tokenId"} :
                mint' = [mint EXCEPT !.pc = "idle",
                                     !.isLoadingTxData = FALSE,
                                     !.mintedTokenId =
                                         IF tokenId = "null" THEN @ ELSE tokenId,
                                     !.branch = "onCollect"]
          /\ hasMintedCurrentArtwork' = TRUE
    /\ UNCHANGED <<animatorVars, rng, kickoff, isAnimating, sim, interp,
                   mountVars, render>>

\* An await of the mint flow rejects: waitWithRetry tries again up to
\* maxRetries times, every other rejection goes to the catch block
AwaitRejects ==
    /\ mint.pc \in {"exportCanvasAsBlob", "uploadImageAndMetadata",
                    "writeContractAsync", "getTransactionReceipt"}
    /\ mint' = IF mint.pc = "getTransactionReceipt" /\ mint.attempt < maxRetries
               THEN [mint EXCEPT !.attempt = @ + 1]
               ELSE CatchFinally(mint)
    /\ UNCHANGED <<animatorVars, rng, kickoff, isAnimating, hasMintedCurrentArtwork,
                   sim, interp, mountVars, render>>

\* The x of the success popup: setMintedTokenId(null)
ClosePopup ==
    /\ mint.mintedTokenId # "null"
    /\ mint' = [mint EXCEPT !.mintedTokenId = "null"]
    /\ UNCHANGED <<animatorVars, rng, kickoff, isAnimating, hasMintedCurrentArtwork,
                   sim, interp, mountVars, render>>

\* The App mounted, the animation frame of the mount effect requested
InitApp ==
    /\ InitAnimator
    /\ rng \in 0..MaxSeed
    /\ sim = Idle
    /\ interp = Idle
    /\ InitMount
    /\ render = NotRendered
    /\ kickoff = "pending"
    /\ isAnimating = FALSE
    /\ hasMintedCurrentArtwork = FALSE
    /\ mint = NoMint

NextApp ==
    \/ AnimationFrame
    \/ handleGenerate
    \/ \E g \in 1..MaxGen : AppTick(g)
    \/ \E env \in ClickEnvironments : handleClick(env)
    \/ AwaitResolves
    \/ AwaitRejects
    \/ ClosePopup

SpecApp == InitApp /\ [][NextApp]_vars

----------------------------------------------------------------------------
(* Vocabulary of the properties *)

LiveTimers == {g \in 1..Len(timers) : timers[g].live}

StartCount(g) == Cardinality({i \in DOMAIN calls : calls[i] = <<"start", g>>})

EndCount(g) == Cardinality({i \in DOMAIN calls : calls[i] = <<"end", g>>})

\* positions of RevealState that hold a path of generation g
RevealedOf(g) == {i \in DOMAIN revealedFrom : revealedFrom[i][1] = g}

\* every path of generation g is in RevealState, in batch order
AllRevealed(g) ==
    /\ Cardinality(RevealedOf(g)) = numBalls
    /\ \A i \in RevealedOf(g) : visiblePaths[i] = timers[g].paths[revealedFrom[i][2]]
    /\ \A i, j \in RevealedOf(g) : i < j => revealedFrom[i][2] < revealedFrom[j][2]

\* the reveal process of generation g has completed
Completed(g) == LiveTimers = {} /\ EndCount(g) = 1 /\ AllRevealed(g)

----------------------------------------------------------------------------
(* Properties of the animator *)

\* C1: in every reachable state at most one reveal timer is live, whatever
\* the sequence of regenerate() calls and timer ticks.
C1_AtMostOneLiveTimer == Cardinality(LiveTimers) <= 1

\* C2: once a generation has been superseded by a later regenerate(), its
\* onAnimationEnd is not invoked any more and none of its paths is appended
\* to RevealState.
C2_AbandonedGenerationSilent ==
    [][\A g \in 1..MaxGen :
          g < Len(timers) =>
              /\ EndCount(g)' = EndCount(g)
              /\ Cardinality(RevealedOf(g))' <= Cardinality(RevealedOf(g))]_vars

\* C3: for the generation no later regenerate() has superseded,
\* onAnimationEnd is invoked at most once, and once it has been invoked the
\* whole batch of that generation is in RevealState, its interval is
\* cleared and can not fire again; an interval stops only by invoking
\* onAnimationEnd.
C3_EndOnceAfterLastPath ==
    \A g \in 1..Len(timers) :
        /\ EndCount(g) <= 1
        /\ timers[g].live <=> EndCount(g) = 0
        /\ EndCount(g) = 1 => timers[g].index = numBalls /\ ~ENABLED Tick(g)
        /\ (g = Len(timers) /\ EndCount(g) = 1) => AllRevealed(g)

C3_Witness ==
    /\ Len(timers) > 1
    /\ \A g \in 1..Len(timers) : EndCount(g) = 1
    /\ Len(visiblePaths) > numBalls

\* every onAnimationEnd in the call log comes after the onAnimationStart of
\* the same generation
EndPrecededByStart ==
    \A i \in DOMAIN calls :
        calls[i][1] = "end" => \E j \in 1..(i - 1) : calls[j] = <<"start", calls[i][2]>>

\* C4: regenerate() invokes onAnimationStart first: the callback runs while
\* the colour scheme, RevealState and the set of scheduled intervals are
\* still those of before the call; and every onAnimationEnd is preceded by
\* the onAnimationStart of its generation.
C4_StartNotifiedFirst ==
    [][/\ Len(timers') = Len(timers) + 1 =>
             /\ calls' = Append(calls, <<"start", Len(timers) + 1>>)
             /\ startSeen' = [gradient |-> selectedGradient,
                              revealed |-> Len(visiblePaths),
                              scheduled |-> Len(timers)]
       /\ EndPrecededByStart']_vars

C4_Witness ==
    /\ startSeen.revealed > 0
    /\ startSeen.gradient # selectedGradient
    /\ startSeen.gradient # <<>>
    /\ \E i \in DOMAIN calls : calls[i] = <<"end", Len(timers)>>

\* C5: whenever the reveal process has completed (onAnimationEnd of the
\* current generation has fired and no timer is live), RevealState holds
\* exactly numBalls paths.
C5_CompletedHasNumBalls ==
    (Len(timers) > 0 /\ LiveTimers = {} /\ EndCount(Len(timers)) = 1)
        => Len(visiblePaths) = numBalls

\* RevealState is a prefix of the batch of the current generation
PrefixOfCurrentBatch ==
    /\ Len(visiblePaths) <= (IF timers = <<>> THEN 0 ELSE numBalls)
    /\ \A i \in DOMAIN visiblePaths :
          /\ revealedFrom[i] = <<Len(timers), i>>
          /\ visiblePaths[i] = timers[Len(timers)].paths[i]

\* C6: regenerate() resets RevealState to empty; a timer tick leaves it
\* unchanged or appends the next path of the current batch; so it is always
\* a prefix of the current batch and never holds a path of another
\* generation.
C6_RevealIsPrefixOfCurrentBatch ==
    [][/\ Len(timers') # Len(timers) => visiblePaths' = <<>>
       /\ Len(timers') = Len(timers) =>
             \/ visiblePaths' = visiblePaths
             \/ /\ Len(visiblePaths) < numBalls
                /\ visiblePaths' =
                      Append(visiblePaths,
                             timers[Len(timers)].paths[Len(visiblePaths) + 1])
       /\ PrefixOfCurrentBatch']_vars

\* C7: while the intervals keep firing, the generation after which
\* regenerate() is not called again reaches, and then stays in, the state
\* where its numBalls paths are revealed, its onAnimationEnd has fired and
\* no reveal timer is live.
C7_RevealTerminates == <>[](Len(timers) > 0 => Completed(Len(timers)))

C7_Witness ==
    /\ Len(timers) = 1
    /\ Completed(1)
    /\ Len(visiblePaths) = numBalls

----------------------------------------------------------------------------
(* Properties of the path simulation *)

\* numRows + 1 vertices, from y = 0 with direction 0 down to
\* y = numRows * stepSize in steps of stepSize
PathShape(p) ==
    /\ Len(p) = numRows + 1
    /\ p[1].y = 0
    /\ p[1].direction = 0
    /\ p[Len(p)].y = numRows * stepSize
    /\ \A i \in 1..(Len(p) - 1) : p[i + 1].y - p[i].y = stepSize

\* C8: every path has numRows + 1 vertices, starts at y = 0 with direction
\* 0, ends at y = numRows * stepSize and descends by stepSize per vertex,
\* as simulateBall returns it and as recentered for the reveal timer.
C8_PathShape ==
    /\ sim.pc \in {"simulated", "recentered"} => PathShape(sim.allPath)
    /\ sim.pc = "recentered" => PathShape(sim.path)

C8_Witness ==
    /\ sim.pc = "recentered"
    /\ Len(sim.path) = numRows + 1
    /\ \E i \in 2..Len(sim.path) : sim.path[i].direction = -1
    /\ \E i \in 2..Len(sim.path) : sim.path[i].direction = 1

\* each step moves x by direction * stepSize, direction being -1 or +1
StepsMatchDirection(p) ==
    \A i \in 1..(Len(p) - 1) :
        /\ p[i + 1].direction \in {-1, 1}
        /\ p[i + 1].x - p[i].x = p[i + 1].direction * stepSize

\* C9: every x-delta is direction * stepSize of the second vertex, with
\* direction -1 or +1; the start x is k * stepSize for an integer k in
\* [-totalCols/2, totalCols/2]; recentering shifts every vertex by
\* -((totalCols - visibleCols)/2) * stepSize + canvasWidth/2 and keeps y and
\* direction.
C9_StepsAndRecentering ==
    /\ sim.pc \in {"simulated", "recentered"} =>
          /\ StepsMatchDirection(sim.allPath)
          /\ \E k \in (-(totalCols \div 2))..(totalCols \div 2) :
                sim.allPath[1].x = k * stepSize
    /\ sim.pc = "recentered" =>
          /\ StepsMatchDirection(sim.path)
          /\ Len(sim.path) = Len(sim.allPath)
          /\ \A i \in DOMAIN sim.path :
                /\ sim.path[i].x - sim.allPath[i].x =
                      -((totalCols - visibleCols) \div 2) * stepSize + canvasWidth \div 2
                /\ sim.path[i].y = sim.allPath[i].y
                /\ sim.path[i].direction = sim.allPath[i].direction

C9_Witness ==
    /\ sim.pc = "recentered"
    /\ sim.allPath[1].x = (totalCols \div 2) * stepSize
    /\ sim.path[2].direction # sim.path[Len(sim.path)].direction

----------------------------------------------------------------------------
(* Properties of the colour interpolation *)

\* C10: at ratio 0.0 interpolateColor returns the first control colour and
\* at ratio 1.0 the last one, without throwing.
C10_EndpointsReturned ==
    (interp.pc = "returned" /\ Len(interp.gradient) >= 2) =>
        /\ interp.ratio = 0 =>
              interp.result = [threw |-> "none", color |-> interp.gradient[1]]
        /\ interp.ratio = RatioDen =>
              interp.result =
                  [threw |-> "none", color |-> interp.gradient[Len(interp.gradient)]]

----------------------------------------------------------------------------
(* Properties of the render effect *)

\* C11: in both animators a render effect that finds the canvas or its 2D
\* context unavailable is skipped without a fault.
C11_UnavailableSurfaceSkipped ==
    render.surface \in {"noCanvas", "noContext"} => render.outcome = "skipped"

\* C13: with numRows = 40, stepSize = 30, canvasHeight = 1200 and gradients
\* of 4 control colours, every segment of every revealed path has a ratio
\* in [0, 1); a render on an available surface throws nothing and reads
\* only indices 0 .. gradient.length - 1 of the gradient; RevealState is
\* non-empty only with a gradient selected.
C13_RatioBelowOne ==
    /\ \A p \in DOMAIN visiblePaths : \A i \in 1..(Len(visiblePaths[p]) - 1) :
          LET num == SegmentRatioNum(visiblePaths[p][i], visiblePaths[p][i + 1])
          IN  0 <= num /\ num < SegmentRatioDen
    /\ visiblePaths # <<>> => Len(selectedGradient) = 4
    /\ render.surface = "ok" =>
          /\ render.outcome = "drawn"
          /\ \A j \in render.reads : 0 <= j /\ j <= Len(selectedGradient) - 1

C13_Witness ==
    /\ component = "GridCanvas"
    /\ render.outcome = "drawn"
    /\ render.strokes = 2 * numRowsConfigured * numBalls
    /\ render.reads = {0, 1, 2, 3}


\* C12: in the App with GridCanvas no two reveal timers are live at the same
\* time, and isAnimating is false only when no reveal timer is live
C12_GenerateOnlyWhenIdle ==
    /\ Cardinality(LiveTimers) <= 1
    /\ ~isAnimating => LiveTimers = {}

\* C14: hasMintedCurrentArtwork is true only if the artwork shown is the one
\* whose mint was confirmed, and a mint is started only when no reveal is in
\* progress
C14_MintedIsShownArtwork ==
    /\ hasMintedCurrentArtwork => mint.confirmed = ShownArtwork
    /\ mint.pc # "idle" => ~mint.startedInReveal

====
